---------------------------- MODULE Spec2Model ----------------------------
(***************************************************************************)
(* Aster Info MCP (src/main.py): eleven tool handlers, each of which       *)
(* builds a query mapping, issues one GET on its own httpx.AsyncClient,    *)
(* decodes the JSON body, shapes it with pandas and returns the table, or  *)
(* raises one of two wrapped exceptions.                                   *)
(*                                                                         *)
(* Numbers are integers counted in units of 10^-Scale, so that rounding to *)
(* 8 or 2 decimal places is a real operation on them.  Text is a sequence  *)
(* of one-character strings, so that upper-casing and lexicographic order  *)
(* are computed and not assumed.                                           *)
(***************************************************************************)
EXTENDS Integers, Sequences, FiniteSets, TLC

VARIABLES pc, op, inbound, sent, response, result, clientOpen

vars == <<pc, op, inbound, sent, response, result, clientOpen>>

---------------------------------------------------------------------------
(* Bounds of the model *)

\* longest upstream array of records / klines
MaxRows == 2
\* longest bids or asks list of an order book
MaxLevels == 2
\* numbers are counted in units of 10^-Scale
Scale == 9
\* the numerals of the rounding specification, in tenths of a rounding unit
MaxTenths == 30

(* Program constants *)

\* .round(8)
PriceDecimals == 8
\* .round(2) of priceChangePercent
PercentDecimals == 2
\* pd.DataFrame(kline_data, columns=[...12 names...])
KlineWidth == 12

---------------------------------------------------------------------------
(* Text *)

Alphabet ==
    <<"1", "A", "B", "D", "I", "K", "S", "T", "a", "b", "d", "i", "k", "s", "t">>

\* code point order of a character (digits < upper case < lower case)
Ord(c) == CHOOSE i \in 1..Len(Alphabet) : Alphabet[i] = c

\* str.upper() on one character
UpperChar(c) ==
    CASE c = "a" -> "A"
      [] c = "b" -> "B"
      [] c = "d" -> "D"
      [] c = "i" -> "I"
      [] c = "k" -> "K"
      [] c = "s" -> "S"
      [] c = "t" -> "T"
      [] OTHER -> c

\* str.upper()
Upper(s) == [i \in 1..Len(s) |-> UpperChar(s[i])]

RECURSIVE TextLess(_, _)
\* s < t on Python strings: lexicographic by code point
TextLess(s, t) ==
    IF t = <<>> THEN FALSE
    ELSE IF s = <<>> THEN TRUE
    ELSE IF s[1] # t[1] THEN Ord(s[1]) < Ord(t[1])
    ELSE TextLess(Tail(s), Tail(t))

---------------------------------------------------------------------------
(* Cells: the scalar values of JSON bodies and of DataFrame columns *)

NoText == <<>>

\* a JSON integer
IntCell(n) == [k |-> "int", v |-> n, s |-> NoText]
\* a JSON string holding the decimal numeral of n * 10^-Scale
NumStr(n) == [k |-> "numstr", v |-> n, s |-> NoText]
\* a JSON string that is not a numeral, or a Python str
Text(s) == [k |-> "text", v |-> 0, s |-> s]
\* a JSON boolean
Bool(b) == [k |-> "bool", v |-> IF b THEN 1 ELSE 0, s |-> NoText]
\* float64 of value n * 10^-Scale
Float(n) == [k |-> "float", v |-> n, s |-> NoText]
\* the cell pandas puts where a record has no value
NaN == [k |-> "nan", v |-> 0, s |-> NoText]
\* datetime64 of ms milliseconds since the epoch
Timestamp(ms) == [k |-> "datetime", v |-> ms, s |-> NoText]
NaT == [k |-> "nat", v |-> 0, s |-> NoText]
\* a value a conversion cannot take
Invalid == [k |-> "invalid", v |-> 0, s |-> NoText]

RECURSIVE Pow10(_)
Pow10(n) == IF n = 0 THEN 1 ELSE 10 * Pow10(n - 1)

\* Variant: always to the next multiple above, a multiple included.
RoundHalfEven_NextAbove(n, decimals) ==
    LET unit == Pow10(Scale - decimals)
    IN  ((n \div unit) + 1) * unit

\* numpy round: to the nearest multiple of 10^-decimals, ties to the even one
RoundHalfEven(n, decimals) ==
    LET unit == Pow10(Scale - decimals)
        q == n \div unit
        r == n % unit
    IN  IF 2 * r < unit THEN q * unit
        ELSE IF 2 * r > unit THEN (q + 1) * unit
        ELSE IF q % 2 = 0 THEN q * unit
        ELSE (q + 1) * unit

\* Series.astype(float) on one cell
AsFloat(c) ==
    CASE c.k = "numstr" -> Float(c.v)
      [] c.k = "float" -> c
      [] c.k = "int" -> Float(c.v * Pow10(Scale))
      [] c.k = "bool" -> Float(c.v * Pow10(Scale))
      [] c.k = "nan" -> NaN
      [] OTHER -> Invalid

\* Series.round(decimals) on one cell
RoundCell(c, decimals) ==
    IF c.k = "float" THEN Float(RoundHalfEven(c.v, decimals)) ELSE c

\* .astype(float).round(8)
AsFloatRound8(c) == RoundCell(AsFloat(c), PriceDecimals)

\* .astype(float).round(2)
AsFloatRound2(c) == RoundCell(AsFloat(c), PercentDecimals)

\* pd.to_datetime(..., unit="ms") on one cell
ToDatetime(c) ==
    CASE c.k = "int" -> Timestamp(c.v)
      [] c.k = "nan" -> NaT
      [] c.k = "datetime" -> c
      [] c.k = "nat" -> c
      [] OTHER -> Invalid

---------------------------------------------------------------------------
(* JSON objects: a sequence of <<key, value>> pairs in the order received *)

Keys(obj) == [i \in 1..Len(obj) |-> obj[i][1]]

HasKey(obj, key) == \E i \in 1..Len(obj) : obj[i][1] = key

Lookup(obj, key) == obj[CHOOSE i \in 1..Len(obj) : obj[i][1] = key][2]

\* dict.get(key, default)
Get(obj, key, default) == IF HasKey(obj, key) THEN Lookup(obj, key) ELSE default

Contains(seq, x) == \E i \in 1..Len(seq) : seq[i] = x

RECURSIVE AppendNew(_, _)
\* seq followed by the members of more it does not hold yet, in their order
AppendNew(seq, more) ==
    IF more = <<>> THEN seq
    ELSE AppendNew(IF Contains(seq, more[1]) THEN seq ELSE Append(seq, more[1]),
                   Tail(more))

RECURSIVE UnionKeys(_)
\* the keys of a list of dicts, in order of first appearance
UnionKeys(data) ==
    IF data = <<>> THEN <<>>
    ELSE AppendNew(Keys(data[1]), UnionKeys(Tail(data)))

---------------------------------------------------------------------------
(* pandas: a frame is its column labels and its rows (cells in column      *)
(* order); an operation either yields a frame or raises                    *)

NoExc == [type |-> "none", arg |-> <<>>]

Frame(cols, rows) == [ok |-> TRUE, cols |-> cols, rows |-> rows, exc |-> NoExc]

\* arg: the labels or message words the exception's str() carries
Raise(type, arg) ==
    [ok |-> FALSE, cols |-> <<>>, rows |-> <<>>, exc |-> [type |-> type, arg |-> arg]]

ColIndex(cols, col) == CHOOSE j \in 1..Len(cols) : cols[j] = col

\* pd.DataFrame(list of dicts): the columns are the union of the keys, and a
\* record without a key gets NaN in that column
DataFrame(data) ==
    LET cols == UnionKeys(data)
    IN  Frame(cols,
              [i \in 1..Len(data) |->
                  [j \in 1..Len(cols) |-> Get(data[i], cols[j], NaN)]])

\* pd.DataFrame(list of dicts, columns=columns): exactly the columns asked
\* for, NaN where a record has no such key
DataFrameOfColumns(data, columns) ==
    Frame(columns,
          [i \in 1..Len(data) |->
              [j \in 1..Len(columns) |-> Get(data[i], columns[j], NaN)]])

RECURSIVE MaxLen(_)
MaxLen(data) ==
    IF data = <<>> THEN 0
    ELSE LET m == MaxLen(Tail(data))
         IN  IF Len(data[1]) > m THEN Len(data[1]) ELSE m

\* Variant: an empty list gives a frame without columns, as pd.DataFrame([])
\* does when columns= is left out.
DataFrameOfArrays_ColumnsFromData(data, columns) ==
    IF data = <<>> THEN Frame(<<>>, <<>>)
    ELSE IF MaxLen(data) # Len(columns)
    THEN Raise("ValueError", <<"columns passed", "passed data had", "columns">>)
    ELSE Frame(columns,
               [i \in 1..Len(data) |->
                   [j \in 1..Len(columns) |->
                       IF j <= Len(data[i]) THEN data[i][j] ELSE NaN]])

\* pd.DataFrame(list of lists, columns=columns): rows are padded to the
\* longest one; a width other than len(columns) raises ValueError
DataFrameOfArrays(data, columns) ==
    IF data = <<>> THEN Frame(columns, <<>>)
    ELSE IF MaxLen(data) # Len(columns)
    THEN Raise("ValueError", <<"columns passed", "passed data had", "columns">>)
    ELSE Frame(columns,
               [i \in 1..Len(data) |->
                   [j \in 1..Len(columns) |->
                       IF j <= Len(data[i]) THEN data[i][j] ELSE NaN]])

\* the conversion named how on one cell
ConvertCell(how, c) ==
    CASE how = "astype(float).round(8)" -> AsFloatRound8(c)
      [] how = "astype(float).round(2)" -> AsFloatRound2(c)
      [] how = "astype(float)" -> AsFloat(c)
      [] how = "round(8)" -> RoundCell(c, PriceDecimals)
      [] how = "to_datetime" -> ToDatetime(c)

\* df[col] = <how>(df[col]), applied cell by cell; reading a column the frame
\* lacks raises KeyError(col), a value the conversion cannot take raises
\* ValueError
Convert(df, col, how) ==
    IF ~df.ok THEN df
    ELSE IF ~Contains(df.cols, col) THEN Raise("KeyError", <<col>>)
    ELSE LET j == ColIndex(df.cols, col)
             rows == [i \in 1..Len(df.rows) |->
                         [df.rows[i] EXCEPT ![j] = ConvertCell(how, df.rows[i][j])]]
         IN  IF \E i \in 1..Len(rows) : rows[i][j] = Invalid
             THEN Raise("ValueError", <<"could not convert", col>>)
             ELSE Frame(df.cols, rows)

\* df[col] = df[col].astype(float).round(8)
ToFloatRound8(df, col) == Convert(df, col, "astype(float).round(8)")

\* df[col] = df[col].astype(float).round(2)
ToFloatRound2(df, col) == Convert(df, col, "astype(float).round(2)")

\* df[col] = df[col].astype(float)
ToFloatCol(df, col) == Convert(df, col, "astype(float)")

\* df[col] = df[col].round(8)
Round8Col(df, col) == Convert(df, col, "round(8)")

\* df[col] = pd.to_datetime(df[col], unit="ms")
ToDatetimeCol(df, col) == Convert(df, col, "to_datetime")

RECURSIVE ToFloatRound8All(_, _)
\* df[c] = df[c].astype(float).round(8) for each c of cols, one statement
\* after the other
ToFloatRound8All(df, cols) ==
    IF cols = <<>> THEN df
    ELSE ToFloatRound8All(ToFloatRound8(df, cols[1]), Tail(cols))

\* the members of wanted that cols lacks, in order
Missing(cols, wanted) == SelectSeq(wanted, LAMBDA c : ~Contains(cols, c))

\* Variant: the listed columns are kept, in the order the frame has them
\* (df.loc[:, df.columns.isin(wanted)]).
Select_FrameOrder(df, wanted) ==
    IF ~df.ok THEN df
    ELSE IF Missing(df.cols, wanted) # <<>>
    THEN Raise("KeyError", Missing(df.cols, wanted) \o <<"not in index">>)
    ELSE LET kept == SelectSeq(df.cols, LAMBDA c : Contains(wanted, c))
         IN  Frame(kept,
                   [i \in 1..Len(df.rows) |->
                       [j \in 1..Len(kept) |->
                           df.rows[i][ColIndex(df.cols, kept[j])]]])

\* df[[...]]: the listed columns in the listed order; a label the frame
\* lacks raises KeyError naming the labels not in the index
Select(df, wanted) ==
    IF ~df.ok THEN df
    ELSE IF Missing(df.cols, wanted) # <<>>
    THEN Raise("KeyError", Missing(df.cols, wanted) \o <<"not in index">>)
    ELSE Frame(wanted,
               [i \in 1..Len(df.rows) |->
                   [j \in 1..Len(wanted) |->
                       df.rows[i][ColIndex(df.cols, wanted[j])]]])

\* Variant: the first entry of the mapping is not applied.
Rename_FirstEntryLost(df, mapping) ==
    IF ~df.ok THEN df
    ELSE Frame([j \in 1..Len(df.cols) |->
                   Get(Tail(mapping), df.cols[j], df.cols[j])],
               df.rows)

\* df.rename(columns={old: new, ...}), mapping a sequence of <<old, new>>
Rename(df, mapping) ==
    IF ~df.ok THEN df
    ELSE Frame([j \in 1..Len(df.cols) |-> Get(mapping, df.cols[j], df.cols[j])],
               df.rows)

\* df[col] = value, col a new column
Assign(df, col, value) ==
    IF ~df.ok THEN df
    ELSE Frame(Append(df.cols, col),
               [i \in 1..Len(df.rows) |-> Append(df.rows[i], value)])

\* pd.concat([a, b], ignore_index=True) of two frames with the same columns
Concat(a, b) ==
    IF ~a.ok THEN a
    ELSE IF ~b.ok THEN b
    ELSE Frame(a.cols, a.rows \o b.rows)

\* x sorts before y in a column: numbers by value, text by code point, and
\* NaN after everything whatever the direction (na_position="last")
CellBefore(x, y, asc) ==
    CASE x.k = "nan" -> FALSE
      [] y.k = "nan" -> TRUE
      [] x.k = "text" -> IF asc THEN TextLess(x.s, y.s) ELSE TextLess(y.s, x.s)
      [] OTHER -> IF asc THEN x.v < y.v ELSE y.v < x.v

RECURSIVE RowBefore(_, _, _, _)
\* row x sorts strictly before row y under the keys by (column indexes)
RowBefore(x, y, by, ascending) ==
    IF by = <<>> THEN FALSE
    ELSE IF CellBefore(x[by[1]], y[by[1]], ascending[1]) THEN TRUE
    ELSE IF CellBefore(y[by[1]], x[by[1]], ascending[1]) THEN FALSE
    ELSE RowBefore(x, y, Tail(by), Tail(ascending))

RECURSIVE Insert(_, _, _, _)
\* row put into sorted after every row it does not sort before
Insert(row, sorted, by, ascending) ==
    IF sorted = <<>> THEN <<row>>
    ELSE IF RowBefore(row, sorted[Len(sorted)], by, ascending)
    THEN Append(Insert(row, SubSeq(sorted, 1, Len(sorted) - 1), by, ascending),
                sorted[Len(sorted)])
    ELSE Append(sorted, row)

RECURSIVE StableSort(_, _, _)
StableSort(rows, by, ascending) ==
    IF rows = <<>> THEN <<>>
    ELSE Insert(rows[Len(rows)],
                StableSort(SubSeq(rows, 1, Len(rows) - 1), by, ascending),
                by, ascending)

\* Variant: ascending= is dropped, so every key sorts ascending.
SortValues_AllAscending(df, by, ascending) ==
    IF ~df.ok THEN df
    ELSE Frame(df.cols,
               StableSort(df.rows,
                          [n \in 1..Len(by) |-> ColIndex(df.cols, by[n])],
                          [n \in 1..Len(by) |-> TRUE]))

\* df.sort_values(by=by, ascending=ascending): a stable sort on several keys
SortValues(df, by, ascending) ==
    IF ~df.ok THEN df
    ELSE Frame(df.cols,
               StableSort(df.rows,
                          [n \in 1..Len(by) |-> ColIndex(df.cols, by[n])],
                          ascending))

---------------------------------------------------------------------------
(* The handlers: query parameters *)

BASE_URL == "https://fapi.asterdex.com"

Operations ==
    {"get_kline", "get_index_price_kline", "get_mark_price_kline",
     "get_premium_index", "get_funding_rate_history",
     "get_price_change_statistics_24h", "get_latest_price",
     "get_order_book_ticker", "get_order_book", "get_recent_trades",
     "get_aggregated_trades"}

Endpoint(o) ==
    CASE o = "get_kline" -> "/fapi/v1/klines"
      [] o = "get_index_price_kline" -> "/fapi/v1/indexPriceKlines"
      [] o = "get_mark_price_kline" -> "/fapi/v1/markPriceKlines"
      [] o = "get_premium_index" -> "/fapi/v1/premiumIndex"
      [] o = "get_funding_rate_history" -> "/fapi/v1/fundingRate"
      [] o = "get_price_change_statistics_24h" -> "/fapi/v1/ticker/24hr"
      [] o = "get_latest_price" -> "/fapi/v1/ticker/price"
      [] o = "get_order_book_ticker" -> "/fapi/v1/ticker/bookTicker"
      [] o = "get_order_book" -> "/fapi/v1/depth"
      [] o = "get_recent_trades" -> "/fapi/v1/trades"
      [] o = "get_aggregated_trades" -> "/fapi/v1/aggTrades"

\* An Optional argument is the set of its values: {} is None, {x} is x.
Value(opt) == CHOOSE x \in opt : TRUE

\* Variant: params[key] = arg without the test, so that None is sent.
SetIfNotNone_Unconditional(params, key, arg) ==
    Append(params,
           <<key, IF arg = {} THEN [k |-> "none", v |-> 0, s |-> NoText]
                  ELSE IntCell(Value(arg))>>)

\* if arg is not None: params[key] = arg
SetIfNotNone(params, key, arg) ==
    IF arg # {} THEN Append(params, <<key, IntCell(Value(arg))>>) ELSE params

\* params = {"symbol": symbol.upper(), "interval": interval}, then the three
\* optional ones
KlineParams(inb) ==
    SetIfNotNone(
      SetIfNotNone(
        SetIfNotNone(<< <<"symbol", Text(Upper(Value(inb.symbol)))>>,
                        <<"interval", Text(Value(inb.interval))>> >>,
                     "startTime", inb.startTime),
        "endTime", inb.endTime),
      "limit", inb.limit)

\* params = {"pair": pair.upper(), "interval": interval}, then the three
\* optional ones
IndexPriceKlineParams(inb) ==
    SetIfNotNone(
      SetIfNotNone(
        SetIfNotNone(<< <<"pair", Text(Upper(Value(inb.pair)))>>,
                        <<"interval", Text(Value(inb.interval))>> >>,
                     "startTime", inb.startTime),
        "endTime", inb.endTime),
      "limit", inb.limit)

\* params = {}; if symbol is not None: params["symbol"] = symbol.upper()
OptionalSymbolParams(inb) ==
    IF inb.symbol # {} THEN << <<"symbol", Text(Upper(Value(inb.symbol)))>> >>
    ELSE <<>>

\* params = {"symbol": symbol.upper()}, then startTime, endTime, limit
FundingRateParams(inb) ==
    SetIfNotNone(
      SetIfNotNone(
        SetIfNotNone(<< <<"symbol", Text(Upper(Value(inb.symbol)))>> >>,
                     "startTime", inb.startTime),
        "endTime", inb.endTime),
      "limit", inb.limit)

\* params = {"symbol": symbol.upper()}, then limit
SymbolLimitParams(inb) ==
    SetIfNotNone(<< <<"symbol", Text(Upper(Value(inb.symbol)))>> >>,
                 "limit", inb.limit)

\* params = {"symbol": symbol.upper()}, then fromId, startTime, endTime, limit
AggregatedTradesParams(inb) ==
    SetIfNotNone(
      SetIfNotNone(
        SetIfNotNone(
          SetIfNotNone(<< <<"symbol", Text(Upper(Value(inb.symbol)))>> >>,
                       "fromId", inb.fromId),
          "startTime", inb.startTime),
        "endTime", inb.endTime),
      "limit", inb.limit)

\* the params mapping handler o builds from its arguments
Params(o, inb) ==
    CASE o \in {"get_kline", "get_mark_price_kline"} -> KlineParams(inb)
      [] o = "get_index_price_kline" -> IndexPriceKlineParams(inb)
      [] o \in {"get_premium_index", "get_price_change_statistics_24h",
                "get_latest_price", "get_order_book_ticker"} ->
            OptionalSymbolParams(inb)
      [] o = "get_funding_rate_history" -> FundingRateParams(inb)
      [] o \in {"get_order_book", "get_recent_trades"} -> SymbolLimitParams(inb)
      [] o = "get_aggregated_trades" -> AggregatedTradesParams(inb)

---------------------------------------------------------------------------
(* The handlers: from the decoded body to the frame that is rendered *)

\* A decoded body is [shape, items]: an "object" with its key/value pairs, or
\* an "array" with its elements.

\* Variant: only a list contributes records; a lone object gives none.
AsList_ListOnly(body) == IF body.shape = "object" THEN <<>> ELSE body.items

\* if isinstance(data, dict): data = [data]
AsList(body) == IF body.shape = "object" THEN <<body.items>> ELSE body.items

OHLC == <<"open_time", "open", "high", "low", "close">>

KlineColumns ==
    <<"open_time", "open", "high", "low", "close", "volume", "close_time",
      "quote_asset_volume", "number_of_trades", "taker_buy_base_asset_volume",
      "taker_buy_quote_asset_volume", "ignore">>

PriceKlineColumns ==
    <<"open_time", "open", "high", "low", "close", "volume", "close_time",
      "ignore1", "ignore2", "ignore3", "ignore4", "ignore5">>

get_kline(body) ==
    ToFloatRound8All(
        Select(ToDatetimeCol(DataFrameOfArrays(body.items, KlineColumns),
                             "open_time"),
               OHLC),
        <<"open", "high", "low", "close">>)

get_index_price_kline(body) ==
    ToFloatRound8All(
        Select(ToDatetimeCol(DataFrameOfArrays(body.items, PriceKlineColumns),
                             "open_time"),
               OHLC),
        <<"open", "high", "low", "close">>)

get_mark_price_kline(body) ==
    ToFloatRound8All(
        Select(ToDatetimeCol(DataFrameOfArrays(body.items, PriceKlineColumns),
                             "open_time"),
               OHLC),
        <<"open", "high", "low", "close">>)

get_premium_index(body) ==
    ToFloatRound8All(
        Select(ToDatetimeCol(DataFrame(AsList(body)), "nextFundingTime"),
               <<"symbol", "markPrice", "indexPrice", "lastFundingRate",
                 "nextFundingTime">>),
        <<"markPrice", "indexPrice", "lastFundingRate">>)

get_funding_rate_history(body) ==
    ToFloatRound8All(
        Select(ToDatetimeCol(DataFrame(body.items), "fundingTime"),
               <<"symbol", "fundingTime", "fundingRate">>),
        <<"fundingRate">>)

get_price_change_statistics_24h(body) ==
    ToFloatRound8All(
        ToFloatRound2(
            ToFloatRound8(
                Select(DataFrame(AsList(body)),
                       <<"symbol", "priceChange", "priceChangePercent",
                         "lastPrice", "volume">>),
                "priceChange"),
            "priceChangePercent"),
        <<"lastPrice", "volume">>)

get_latest_price(body) ==
    ToFloatRound8(Select(DataFrame(AsList(body)), <<"symbol", "price">>), "price")

get_order_book_ticker(body) ==
    ToFloatRound8All(
        Select(DataFrame(AsList(body)),
               <<"symbol", "bidPrice", "bidQty", "askPrice", "askQty">>),
        <<"bidPrice", "bidQty", "askPrice", "askQty">>)

\* Variant: the asks frame is tagged "bid" as well.
get_order_book_AsksTaggedBid(body) ==
    LET bids == Get(body.items, "bids", <<>>)
        asks == Get(body.items, "asks", <<>>)
        bids_df == Assign(DataFrameOfArrays(bids, <<"price", "quantity">>),
                          "side", Text(<<"b", "i", "d">>))
        asks_df == Assign(DataFrameOfArrays(asks, <<"price", "quantity">>),
                          "side", Text(<<"b", "i", "d">>))
        sorted == SortValues(ToFloatCol(Concat(bids_df, asks_df), "price"),
                             <<"side", "price">>, <<TRUE, FALSE>>)
    IN  Select(ToFloatRound8(Round8Col(sorted, "price"), "quantity"),
               <<"side", "price", "quantity">>)

get_order_book(body) ==
    LET bids == Get(body.items, "bids", <<>>)
        asks == Get(body.items, "asks", <<>>)
        bids_df == Assign(DataFrameOfArrays(bids, <<"price", "quantity">>),
                          "side", Text(<<"b", "i", "d">>))
        asks_df == Assign(DataFrameOfArrays(asks, <<"price", "quantity">>),
                          "side", Text(<<"a", "s", "k">>))
        sorted == SortValues(ToFloatCol(Concat(bids_df, asks_df), "price"),
                             <<"side", "price">>, <<TRUE, FALSE>>)
    IN  Select(ToFloatRound8(Round8Col(sorted, "price"), "quantity"),
               <<"side", "price", "quantity">>)

get_recent_trades(body) ==
    ToFloatRound8All(
        Rename(Select(ToDatetimeCol(DataFrame(body.items), "time"),
                      <<"id", "price", "qty", "quoteQty", "time",
                        "isBuyerMaker">>),
               << <<"id", "tradeId">> >>),
        <<"price", "qty", "quoteQty">>)

AggColumns == <<"a", "p", "q", "f", "l", "T", "m">>

AggRename ==
    << <<"a", "aggTradeId">>, <<"p", "price">>, <<"q", "qty">>,
       <<"f", "firstTradeId">>, <<"l", "lastTradeId">>, <<"T", "time">>,
       <<"m", "isBuyerMaker">> >>

get_aggregated_trades(body) ==
    ToFloatRound8All(
        Rename(Select(ToDatetimeCol(DataFrameOfColumns(body.items, AggColumns),
                                    "T"),
                      AggColumns),
               AggRename),
        <<"price", "qty">>)

\* the frame handler o builds from a decoded body
Normalize(o, body) ==
    CASE o = "get_kline" -> get_kline(body)
      [] o = "get_index_price_kline" -> get_index_price_kline(body)
      [] o = "get_mark_price_kline" -> get_mark_price_kline(body)
      [] o = "get_premium_index" -> get_premium_index(body)
      [] o = "get_funding_rate_history" -> get_funding_rate_history(body)
      [] o = "get_price_change_statistics_24h" ->
            get_price_change_statistics_24h(body)
      [] o = "get_latest_price" -> get_latest_price(body)
      [] o = "get_order_book_ticker" -> get_order_book_ticker(body)
      [] o = "get_order_book" -> get_order_book(body)
      [] o = "get_recent_trades" -> get_recent_trades(body)
      [] o = "get_aggregated_trades" -> get_aggregated_trades(body)

\* the words after "Error processing " in the handler's second except clause
ErrorLabel(o) ==
    CASE o = "get_kline" -> "Kline data"
      [] o = "get_index_price_kline" -> "Index Price Kline data"
      [] o = "get_mark_price_kline" -> "Mark Price Kline data"
      [] o = "get_premium_index" -> "Premium Index data"
      [] o = "get_funding_rate_history" -> "Funding Rate data"
      [] o = "get_price_change_statistics_24h" ->
            "24-hour price change statistics"
      [] o = "get_latest_price" -> "latest price data"
      [] o = "get_order_book_ticker" -> "order book ticker data"
      [] o = "get_order_book" -> "order book data"
      [] o = "get_recent_trades" -> "recent trades data"
      [] o = "get_aggregated_trades" -> "aggregated trades data"

---------------------------------------------------------------------------
(* The handlers: from the awaited response to the return or the raise *)

NoMessage == [prefix |-> "", status |-> 0, text |-> <<>>]

\* return markdown_table: df.to_markdown(index=False) renders the header and
\* one line per row
Returned(df) ==
    [kind |-> "table", header |-> df.cols, rows |-> df.rows,
     message |-> NoMessage]

\* Variant: the error of the HTTP-status clause is caught by the generic
\* clause and wrapped once more.
ApiRequestFailed_Rewrapped(resp) ==
    [kind |-> "exception", header |-> <<>>, rows |-> <<>>,
     message |-> [prefix |-> "Error processing", status |-> 0,
                  text |-> <<"data", "API request failed">>]]

\* raise Exception(f"API request failed: {e.response.status_code} -
\* {e.response.text}")
ApiRequestFailed(resp) ==
    [kind |-> "exception", header |-> <<>>, rows |-> <<>>,
     message |-> [prefix |-> "API request failed", status |-> resp.status,
                  text |-> resp.body.items]]

\* raise Exception(f"Error processing <label>: {str(e)}")
ErrorProcessing(o, exc) ==
    [kind |-> "exception", header |-> <<>>, rows |-> <<>>,
     message |-> [prefix |-> "Error processing", status |-> 0,
                  text |-> <<ErrorLabel(o)>> \o exc.arg]]

\* Variant: only the 4xx and 5xx classes count as failures.
IsSuccess_Below400(status) == status < 400

\* httpx Response.is_success
IsSuccess(status) == 200 <= status /\ status <= 299

\* what the handler does once client.get has returned or raised: the body of
\* the try block after the await, and the two except clauses
Outcome(o, resp) ==
    IF resp.kind = "transport"
    THEN ErrorProcessing(o, [type |-> "ConnectError",
                             arg |-> <<"All connection attempts failed">>])
    ELSE IF ~IsSuccess(resp.status) THEN ApiRequestFailed(resp)
    ELSE IF resp.body.shape = "text"
    THEN ErrorProcessing(o, [type |-> "JSONDecodeError",
                             arg |-> <<"Expecting value">>])
    ELSE LET df == Normalize(o, resp.body)
         IN  IF df.ok THEN Returned(df) ELSE ErrorProcessing(o, df.exc)

---------------------------------------------------------------------------
(* Inputs: the arguments of a call and the responses of the upstream *)

Requests == {1}

Symbols == {<<"b", "t">>, <<"B", "t">>, <<"B", "T">>}
Intervals == {<<"1", "d">>}

Optional(S) == {{}} \cup {{x} : x \in S}
Required(S) == {{x} : x \in S}
NotAnArgument == {{}}

NoArguments ==
    [symbol |-> {}, pair |-> {}, interval |-> {}, fromId |-> {},
     startTime |-> {}, endTime |-> {}, limit |-> {}]

\* the argument lists handler o can be called with, by its signature
Arguments(o) ==
    CASE o \in {"get_kline", "get_mark_price_kline"} ->
            [symbol : Required(Symbols), pair : NotAnArgument,
             interval : Required(Intervals), fromId : NotAnArgument,
             startTime : Optional({1}), endTime : Optional({2}),
             limit : Optional({5})]
      [] o = "get_index_price_kline" ->
            [symbol : NotAnArgument, pair : Required(Symbols),
             interval : Required(Intervals), fromId : NotAnArgument,
             startTime : Optional({1}), endTime : Optional({2}),
             limit : Optional({5})]
      [] o \in {"get_premium_index", "get_price_change_statistics_24h",
                "get_latest_price", "get_order_book_ticker"} ->
            [symbol : Optional(Symbols), pair : NotAnArgument,
             interval : NotAnArgument, fromId : NotAnArgument,
             startTime : NotAnArgument, endTime : NotAnArgument,
             limit : NotAnArgument]
      [] o = "get_funding_rate_history" ->
            [symbol : Required(Symbols), pair : NotAnArgument,
             interval : NotAnArgument, fromId : NotAnArgument,
             startTime : Optional({1}), endTime : Optional({2}),
             limit : Optional({5})]
      [] o \in {"get_order_book", "get_recent_trades"} ->
            [symbol : Required(Symbols), pair : NotAnArgument,
             interval : NotAnArgument, fromId : NotAnArgument,
             startTime : NotAnArgument, endTime : NotAnArgument,
             limit : Optional({5})]
      [] o = "get_aggregated_trades" ->
            [symbol : Required(Symbols), pair : NotAnArgument,
             interval : NotAnArgument, fromId : Optional({3}),
             startTime : Optional({1}), endTime : Optional({2}),
             limit : Optional({5})]

SeqsUpTo(S, n) == UNION {[1..m -> S] : m \in 0..n}

\* the keys of one upstream record of handler o, in upstream order (the
\* handler's columns and the ones it drops)
RawFields(o) ==
    CASE o = "get_premium_index" ->
            <<"symbol", "markPrice", "indexPrice", "estimatedSettlePrice",
              "lastFundingRate", "nextFundingTime", "time">>
      [] o = "get_funding_rate_history" ->
            <<"symbol", "fundingRate", "fundingTime">>
      [] o = "get_price_change_statistics_24h" ->
            <<"symbol", "priceChange", "priceChangePercent", "weightedAvgPrice",
              "lastPrice", "volume">>
      [] o = "get_latest_price" -> <<"symbol", "price", "time">>
      [] o = "get_order_book_ticker" ->
            <<"symbol", "bidPrice", "bidQty", "askPrice", "askQty", "time">>
      [] o = "get_recent_trades" ->
            <<"id", "price", "qty", "quoteQty", "time", "isBuyerMaker">>
      [] o = "get_aggregated_trades" -> <<"a", "p", "q", "f", "l", "T", "m">>

\* the key the third sample record of handler o lacks
DroppedField(o) ==
    CASE o = "get_premium_index" -> "markPrice"
      [] o = "get_funding_rate_history" -> "fundingTime"
      [] o = "get_price_change_statistics_24h" -> "volume"
      [] o = "get_latest_price" -> "price"
      [] o = "get_order_book_ticker" -> "askQty"
      [] o = "get_recent_trades" -> "isBuyerMaker"
      [] o = "get_aggregated_trades" -> "m"

\* two numerals per field: 15 units is a tie at 8 places, 104 is not
SampleValue(key, variant) ==
    CASE key = "symbol" ->
            Text(IF variant = 1 THEN <<"B", "T">> ELSE <<"A", "D">>)
      [] key \in {"nextFundingTime", "fundingTime", "time", "T"} ->
            IntCell(1000 * variant)
      [] key \in {"id", "a", "f", "l"} -> IntCell(40 + variant)
      [] key \in {"isBuyerMaker", "m"} -> Bool(variant = 1)
      [] key = "priceChangePercent" ->
            NumStr((IF variant = 1 THEN 15 ELSE 104)
                   * Pow10(PriceDecimals - PercentDecimals))
      [] OTHER -> NumStr(IF variant = 1 THEN 15 ELSE 104)

Reverse(seq) == [i \in 1..Len(seq) |-> seq[Len(seq) + 1 - i]]

FullRecord(o) ==
    [i \in 1..Len(RawFields(o)) |->
        <<RawFields(o)[i], SampleValue(RawFields(o)[i], 1)>>]

ReversedRecord(o) ==
    Reverse([i \in 1..Len(RawFields(o)) |->
                <<RawFields(o)[i], SampleValue(RawFields(o)[i], 2)>>])

PartialRecord(o) ==
    SelectSeq(FullRecord(o), LAMBDA kv : kv[1] # DroppedField(o))

SampleRecords(o) == {FullRecord(o), ReversedRecord(o), PartialRecord(o)}

\* one kline: open time, open, high, low, close and the seven more positions
SampleKline(variant) ==
    <<IntCell(1000 * variant), NumStr(15 * variant), NumStr(104 * variant),
      NumStr(25 * variant), NumStr(36 * variant), NumStr(7), IntCell(1999),
      NumStr(8), IntCell(3), NumStr(4), NumStr(5), NumStr(0)>>

SampleKlines ==
    {SampleKline(1), SampleKline(2), SubSeq(SampleKline(1), 1, KlineWidth - 1)}

\* [price, quantity] levels; 104 and 100 round to the same price
SampleLevels ==
    {<<NumStr(104), NumStr(7000)>>, <<NumStr(115), NumStr(8000)>>,
     <<NumStr(100), NumStr(9000)>>}

OrderBook(bids, asks) ==
    [shape |-> "object",
     items |-> << <<"lastUpdateId", IntCell(1)>> >>
               \o (IF bids = {} THEN <<>> ELSE << <<"bids", Value(bids)>> >>)
               \o (IF asks = {} THEN <<>> ELSE << <<"asks", Value(asks)>> >>)]

SingleObjectOperations ==
    {"get_premium_index", "get_price_change_statistics_24h",
     "get_latest_price", "get_order_book_ticker"}

KlineOperations ==
    {"get_kline", "get_index_price_kline", "get_mark_price_kline"}

\* the JSON bodies the upstream can answer handler o with
Bodies(o) ==
    IF o \in KlineOperations
    THEN {[shape |-> "array", items |-> a] : a \in SeqsUpTo(SampleKlines, MaxRows)}
    ELSE IF o = "get_order_book"
    THEN {OrderBook(b, a) : b \in Optional(SeqsUpTo(SampleLevels, MaxLevels)),
                            a \in Optional(SeqsUpTo(SampleLevels, MaxLevels))}
    ELSE {[shape |-> "array", items |-> a] :
              a \in SeqsUpTo(SampleRecords(o), MaxRows)}
         \cup (IF o \in SingleObjectOperations
               THEN {[shape |-> "object", items |-> x] : x \in SampleRecords(o)}
               ELSE {})

NotJson == [shape |-> "text", items |-> <<"<html>">>]

ErrorStatuses == {429, 500}

ErrorText == [shape |-> "text", items |-> <<"{code: -1003}">>]

\* a redirect: not a success for raise_for_status, not an error class either
RedirectStatus == 302

\* the upstream's JSON error object {"code": ..., "msg": ...}
ErrorJson ==
    [shape |-> "object",
     items |-> << <<"code", IntCell(1121)>>,
                  <<"msg", Text(<<"b", "a", "d">>)>> >>]

\* the responses raise_for_status rejects
ErrorResponses ==
    {[kind |-> "http", status |-> status, body |-> body] :
         status \in ErrorStatuses, body \in {ErrorText, ErrorJson}}
    \cup {[kind |-> "http", status |-> RedirectStatus, body |-> ErrorText]}

NoResponse ==
    [kind |-> "none", status |-> 0, body |-> [shape |-> "none", items |-> <<>>]]

NoResult ==
    [kind |-> "none", header |-> <<>>, rows |-> <<>>, message |-> NoMessage]

---------------------------------------------------------------------------
(* The state machine: each request is one call of one handler *)

Init ==
    /\ pc = [r \in Requests |-> "idle"]
    /\ op = [r \in Requests |-> "none"]
    /\ inbound = [r \in Requests |-> NoArguments]
    /\ sent = [r \in Requests |-> <<>>]
    /\ response = [r \in Requests |-> NoResponse]
    /\ result = [r \in Requests |-> NoResult]
    /\ clientOpen = [r \in Requests |-> FALSE]

\* The handler is called: it builds params, enters async with
\* httpx.AsyncClient() and awaits client.get(url, params=params).
Call(r, o, inb) ==
    /\ pc[r] = "idle"
    /\ pc' = [pc EXCEPT ![r] = "awaiting"]
    /\ op' = [op EXCEPT ![r] = o]
    /\ inbound' = [inbound EXCEPT ![r] = inb]
    /\ clientOpen' = [clientOpen EXCEPT ![r] = TRUE]
    /\ sent' = [sent EXCEPT ![r] =
                   Append(@, [url |-> <<BASE_URL, Endpoint(o)>>,
                              params |-> Params(o, inb)])]
    /\ UNCHANGED <<response, result>>

\* Variant: a failed call is issued once more before the handler gives up.
Resume_RetryOnce(r, resp) ==
    /\ pc[r] = "awaiting"
    /\ response' = [response EXCEPT ![r] = resp]
    /\ IF (resp.kind = "transport" \/ ~IsSuccess(resp.status)) /\ Len(sent[r]) < 2
       THEN /\ sent' = [sent EXCEPT ![r] = Append(@, @[1])]
            /\ UNCHANGED <<pc, result, clientOpen>>
       ELSE /\ result' = [result EXCEPT ![r] = Outcome(op[r], resp)]
            /\ pc' = [pc EXCEPT ![r] =
                         IF Outcome(op[r], resp).kind = "table" THEN "returned"
                         ELSE "raised"]
            /\ clientOpen' = [clientOpen EXCEPT ![r] = FALSE]
            /\ UNCHANGED sent
    /\ UNCHANGED <<op, inbound>>

\* Variant: the client is closed by a call placed before the return, which
\* a raise skips.
Resume_CloseBeforeReturn(r, resp) ==
    /\ pc[r] = "awaiting"
    /\ response' = [response EXCEPT ![r] = resp]
    /\ result' = [result EXCEPT ![r] = Outcome(op[r], resp)]
    /\ pc' = [pc EXCEPT ![r] =
                 IF Outcome(op[r], resp).kind = "table" THEN "returned"
                 ELSE "raised"]
    /\ clientOpen' = [clientOpen EXCEPT ![r] =
                         Outcome(op[r], resp).kind # "table"]
    /\ UNCHANGED <<op, inbound, sent>>

\* Variant: the response is kept in a module-level variable that every
\* awaiting call reads.
Resume_ModuleLevelResponse(r, resp) ==
    /\ pc[r] = "awaiting"
    /\ response' = [q \in DOMAIN response |->
                        IF pc[q] = "awaiting" THEN resp ELSE response[q]]
    /\ result' = [result EXCEPT ![r] = Outcome(op[r], resp)]
    /\ pc' = [pc EXCEPT ![r] =
                 IF Outcome(op[r], resp).kind = "table" THEN "returned"
                 ELSE "raised"]
    /\ clientOpen' = [clientOpen EXCEPT ![r] = FALSE]
    /\ UNCHANGED <<op, inbound, sent>>

\* The await ends with resp; the handler runs to its return or raise, and
\* leaving the async with block closes the client.
Resume(r, resp) ==
    /\ pc[r] = "awaiting"
    /\ response' = [response EXCEPT ![r] = resp]
    /\ result' = [result EXCEPT ![r] = Outcome(op[r], resp)]
    /\ pc' = [pc EXCEPT ![r] =
                 IF Outcome(op[r], resp).kind = "table" THEN "returned"
                 ELSE "raised"]
    /\ clientOpen' = [clientOpen EXCEPT ![r] = FALSE]
    /\ UNCHANGED <<op, inbound, sent>>

\* the upstream answers 2xx with a JSON body
RespondJson(r) ==
    /\ pc[r] = "awaiting"
    /\ \E body \in Bodies(op[r]) :
           Resume(r, [kind |-> "http", status |-> 200, body |-> body])

\* the upstream answers 2xx with a body that is not JSON
RespondNotJson(r) ==
    Resume(r, [kind |-> "http", status |-> 200, body |-> NotJson])

\* the upstream answers with an error status
RespondErrorStatus(r) ==
    \E resp \in ErrorResponses : Resume(r, resp)

\* client.get raises a transport error
TransportError(r) ==
    Resume(r, [kind |-> "transport", status |-> 0,
               body |-> [shape |-> "none", items |-> <<>>]])

Next ==
    \E r \in Requests :
        \/ \E o \in Operations : \E inb \in Arguments(o) : Call(r, o, inb)
        \/ RespondJson(r)
        \/ RespondNotJson(r)
        \/ RespondErrorStatus(r)
        \/ TransportError(r)

Spec == Init /\ [][Next]_vars

---------------------------------------------------------------------------
(* The rounding specification: the two ticker handlers, answered with one
   object whose numerals run over every tenth of a rounding unit *)

RoundingOperations == {"get_latest_price", "get_price_change_statistics_24h"}

\* the places .round() keeps in the column named key
Decimals(key) ==
    IF key = "priceChangePercent" THEN PercentDecimals ELSE PriceDecimals

\* the numeral of n tenths of the rounding unit of the column named key
Numeral(key, n) == NumStr(n * Pow10(Scale - 1 - Decimals(key)))

\* the ticker object whose numerals are all n tenths of their unit
NumeralBody(o, n) ==
    [shape |-> "object",
     items |-> [i \in 1..Len(RawFields(o)) |->
                   <<RawFields(o)[i],
                     IF RawFields(o)[i] \in {"symbol", "time"}
                     THEN SampleValue(RawFields(o)[i], 1)
                     ELSE Numeral(RawFields(o)[i], n)>>]]

\* the upstream answers 2xx with a ticker object
RespondNumerals(r) ==
    /\ pc[r] = "awaiting"
    /\ \E n \in (0 - MaxTenths)..MaxTenths :
           Resume(r, [kind |-> "http", status |-> 200,
                      body |-> NumeralBody(op[r], n)])

NextRounding ==
    \E r \in Requests :
        \/ \E o \in RoundingOperations :
               \E inb \in {a \in Arguments(o) : a.symbol # {}} :
                   Call(r, o, inb)
        \/ RespondNumerals(r)

SpecRounding == Init /\ [][NextRounding]_vars

---------------------------------------------------------------------------
(* The concurrent specification: two calls in flight on the one event loop,
   two handlers, a few responses each; a finished call's slot is reused *)

InFlight == {1, 2}

ConcurrentOperations == {"get_latest_price", "get_order_book"}

\* a few JSON bodies for each of the two handlers
ConcurrentBodies(o) ==
    IF o = "get_order_book"
    THEN {OrderBook({<<>>}, {<<>>}),
          OrderBook({<<<<NumStr(104), NumStr(7000)>>,
                       <<NumStr(115), NumStr(8000)>>>>},
                    {<<<<NumStr(100), NumStr(9000)>>>>})}
    ELSE {[shape |-> "object", items |-> FullRecord(o)],
          [shape |-> "array", items |-> <<FullRecord(o), ReversedRecord(o)>>]}

InitConcurrent ==
    /\ pc = [r \in InFlight |-> "idle"]
    /\ op = [r \in InFlight |-> "none"]
    /\ inbound = [r \in InFlight |-> NoArguments]
    /\ sent = [r \in InFlight |-> <<>>]
    /\ response = [r \in InFlight |-> NoResponse]
    /\ result = [r \in InFlight |-> NoResult]
    /\ clientOpen = [r \in InFlight |-> FALSE]

\* the upstream answers 2xx with one of the few JSON bodies
RespondSample(r) ==
    /\ pc[r] = "awaiting"
    /\ \E body \in ConcurrentBodies(op[r]) :
           Resume(r, [kind |-> "http", status |-> 200, body |-> body])

\* The coroutine is over: its result went to the caller and its locals
\* (params, response, df) are gone; the slot can take the next call.
Deliver(r) ==
    /\ pc[r] \in {"returned", "raised"}
    /\ pc' = [pc EXCEPT ![r] = "idle"]
    /\ op' = [op EXCEPT ![r] = "none"]
    /\ inbound' = [inbound EXCEPT ![r] = NoArguments]
    /\ sent' = [sent EXCEPT ![r] = <<>>]
    /\ response' = [response EXCEPT ![r] = NoResponse]
    /\ result' = [result EXCEPT ![r] = NoResult]
    /\ UNCHANGED clientOpen

NextConcurrent ==
    \E r \in InFlight :
        \/ \E o \in ConcurrentOperations :
               \E inb \in Arguments(o) : Call(r, o, inb)
        \/ RespondSample(r)
        \/ RespondNotJson(r)
        \/ RespondErrorStatus(r)
        \/ TransportError(r)
        \/ Deliver(r)

SpecConcurrent == InitConcurrent /\ [][NextConcurrent]_vars

---------------------------------------------------------------------------
(* Properties: vocabulary *)

Done(r) == pc[r] \in {"returned", "raised"}

\* request r was answered 2xx with a JSON body
AnsweredJson(r) ==
    /\ Done(r)
    /\ response[r].kind = "http"
    /\ response[r].status = 200
    /\ response[r].body.shape \in {"object", "array"}

\* the records of a body: a lone object is its only record
BodyRecords(body) ==
    IF body.shape = "object" THEN <<body.items>> ELSE body.items

RecordOperations ==
    {"get_premium_index", "get_funding_rate_history",
     "get_price_change_statistics_24h", "get_latest_price",
     "get_order_book_ticker", "get_recent_trades", "get_aggregated_trades"}

\* the upstream keys an operation selects, in the order of its table
SelectedKeys(o) ==
    CASE o = "get_latest_price" -> <<"symbol", "price">>
      [] o = "get_order_book_ticker" ->
            <<"symbol", "bidPrice", "bidQty", "askPrice", "askQty">>
      [] o = "get_price_change_statistics_24h" ->
            <<"symbol", "priceChange", "priceChangePercent", "lastPrice",
              "volume">>
      [] o = "get_premium_index" ->
            <<"symbol", "markPrice", "indexPrice", "lastFundingRate",
              "nextFundingTime">>
      [] o = "get_funding_rate_history" ->
            <<"symbol", "fundingTime", "fundingRate">>
      [] o = "get_recent_trades" ->
            <<"id", "price", "qty", "quoteQty", "time", "isBuyerMaker">>
      [] o = "get_aggregated_trades" -> <<"a", "p", "q", "f", "l", "T", "m">>

\* some record of the body has no value for some selected key
LacksSelectedKey(o, body) ==
    \E i \in 1..Len(BodyRecords(body)) :
        \E j \in 1..Len(SelectedKeys(o)) :
            ~HasKey(BodyRecords(body)[i], SelectedKeys(o)[j])

---------------------------------------------------------------------------
(* Properties *)

\* C1: whenever some record of the upstream body lacks a key the operation
\* selects, the request ends with an error and no table.
C1_MissingFieldFails ==
    \A r \in Requests :
        (/\ AnsweredJson(r)
         /\ op[r] \in RecordOperations
         /\ LacksSelectedKey(op[r], response[r].body))
        => result[r].kind = "exception"

\* C2: an empty array answered to funding-rate-history ends the request with
\* an empty table and no exception.
C2_EmptyFundingHistoryIsEmptyTable ==
    \A r \in Requests :
        (/\ AnsweredJson(r)
         /\ op[r] = "get_funding_rate_history"
         /\ response[r].body.shape = "array"
         /\ response[r].body.items = <<>>)
        => (result[r].kind = "table" /\ result[r].rows = <<>>)

\* the size of one step of the 8th decimal place
Unit8 == Pow10(Scale - PriceDecimals)

\* out is a float on the grid of 8 decimal places nearest to the numeral in
IsRounded8(out, in) ==
    /\ out.k = "float"
    /\ out.v % Unit8 = 0
    /\ 2 * (out.v - in.v) <= Unit8
    /\ 2 * (in.v - out.v) <= Unit8

\* C3: a body of N klines of 12 positions each gives a table of N rows with
\* the fields open_time, open, high, low, close, row i holding positions 0..4
\* of kline i (the time as a timestamp, the prices at 8 places); N = 0 gives
\* the empty table with that header.
C3_KlineTable ==
    \A r \in Requests :
        (/\ AnsweredJson(r)
         /\ op[r] \in KlineOperations
         /\ response[r].body.shape = "array"
         /\ \A i \in 1..Len(response[r].body.items) :
                Len(response[r].body.items[i]) = 12)
        => LET klines == response[r].body.items
               table == result[r]
           IN  /\ table.kind = "table"
               /\ table.header = <<"open_time", "open", "high", "low", "close">>
               /\ Len(table.rows) = Len(klines)
               /\ \A i \in 1..Len(klines) :
                      /\ Len(table.rows[i]) = 5
                      /\ table.rows[i][1] = Timestamp(klines[i][1].v)
                      /\ \A j \in 2..5 : IsRounded8(table.rows[i][j], klines[i][j])

\* two different klines were answered to index-price-kline and came back as
\* two rows
C3_Witness ==
    \E r \in Requests :
        /\ AnsweredJson(r)
        /\ op[r] = "get_index_price_kline"
        /\ Len(response[r].body.items) = 2
        /\ \A i \in 1..2 : Len(response[r].body.items[i]) = 12
        /\ response[r].body.items[1] # response[r].body.items[2]
        /\ result[r].kind = "table"
        /\ Len(result[r].rows) = 2

\* the cell of row under the column named col of table
Cell(table, row, col) == row[ColIndex(table.header, col)]

Count(seq, x) == Cardinality({i \in 1..Len(seq) : seq[i] = x})

\* the row a [price, quantity] level of one side is to become
LevelRow(side, level) ==
    <<Text(side), AsFloatRound8(level[1]), AsFloatRound8(level[2])>>

\* C5: the order-book table has len(bids) + len(asks) rows: each bid level is
\* exactly one row tagged bid and each ask level exactly one row tagged ask,
\* with its own price and quantity.
C5_OrderBookRows ==
    \A r \in Requests :
        (AnsweredJson(r) /\ op[r] = "get_order_book")
        => LET bids == Get(response[r].body.items, "bids", <<>>)
               asks == Get(response[r].body.items, "asks", <<>>)
               expected ==
                   [i \in 1..Len(bids) |-> LevelRow(<<"b", "i", "d">>, bids[i])]
                   \o [i \in 1..Len(asks) |-> LevelRow(<<"a", "s", "k">>, asks[i])]
               table == result[r]
           IN  /\ table.kind = "table"
               /\ table.header = <<"side", "price", "quantity">>
               /\ Len(table.rows) = Len(bids) + Len(asks)
               /\ \A i \in 1..Len(expected) :
                      Count(table.rows, expected[i]) = Count(expected, expected[i])

\* two bids and two asks were answered and four rows came back, two per side
C5_Witness ==
    \E r \in Requests :
        /\ AnsweredJson(r)
        /\ op[r] = "get_order_book"
        /\ Len(Get(response[r].body.items, "bids", <<>>)) = 2
        /\ Len(Get(response[r].body.items, "asks", <<>>)) = 2
        /\ result[r].kind = "table"
        /\ Len(result[r].rows) = 4
        /\ Count([i \in 1..4 |-> result[r].rows[i][1].s], <<"b", "i", "d">>) = 2
        /\ Count([i \in 1..4 |-> result[r].rows[i][1].s], <<"a", "s", "k">>) = 2

\* C6: for the single-object operations, a body that is a lone object X ends
\* the request exactly as the one-element array [X] would.
C6_LoneObjectAsOneElementArray ==
    \A r \in Requests :
        (/\ AnsweredJson(r)
         /\ op[r] \in SingleObjectOperations
         /\ response[r].body.shape = "object")
        => result[r] =
             Outcome(op[r],
                     [kind |-> "http", status |-> 200,
                      body |-> [shape |-> "array",
                                items |-> <<response[r].body.items>>]])

\* a lone object was answered to latest-price and came back as a one-row
\* table
C6_Witness ==
    \E r \in Requests :
        /\ AnsweredJson(r)
        /\ op[r] = "get_latest_price"
        /\ response[r].body.shape = "object"
        /\ result[r].kind = "table"
        /\ Len(result[r].rows) = 1

\* the fields of each operation's table, in order
TableFields(o) ==
    CASE o \in KlineOperations -> <<"open_time", "open", "high", "low", "close">>
      [] o = "get_latest_price" -> <<"symbol", "price">>
      [] o = "get_order_book_ticker" ->
            <<"symbol", "bidPrice", "bidQty", "askPrice", "askQty">>
      [] o = "get_price_change_statistics_24h" ->
            <<"symbol", "priceChange", "priceChangePercent", "lastPrice",
              "volume">>
      [] o = "get_premium_index" ->
            <<"symbol", "markPrice", "indexPrice", "lastFundingRate",
              "nextFundingTime">>
      [] o = "get_funding_rate_history" ->
            <<"symbol", "fundingTime", "fundingRate">>
      [] o = "get_order_book" -> <<"side", "price", "quantity">>
      [] o = "get_recent_trades" ->
            <<"tradeId", "price", "qty", "quoteQty", "time", "isBuyerMaker">>
      [] o = "get_aggregated_trades" ->
            <<"aggTradeId", "price", "qty", "firstTradeId", "lastTradeId",
              "time", "isBuyerMaker">>

\* C7: the header of every table returned is the operation's field list in
\* its order, and every row has one cell per field, whatever further keys the
\* upstream records carry and in whatever order.
C7_FixedHeader ==
    \A r \in Requests :
        pc[r] = "returned"
        => /\ result[r].kind = "table"
           /\ result[r].header = TableFields(op[r])
           /\ \A i \in 1..Len(result[r].rows) :
                  DOMAIN result[r].rows[i] = 1..Len(TableFields(op[r]))

\* premium-index returned a table for records whose first one has its keys in
\* another order than the table and carries keys the table does not have
C7_Witness ==
    \E r \in Requests :
        /\ pc[r] = "returned"
        /\ op[r] = "get_premium_index"
        /\ response[r].body.shape = "array"
        /\ Len(response[r].body.items) = 2
        /\ Keys(response[r].body.items[1])[1] # "symbol"
        /\ HasKey(response[r].body.items[1], "estimatedSettlePrice")
        /\ Len(result[r].rows) = 2

\* out is what the value in of an upstream record shows as in the table: a
\* numeral at 8 places, anything else as it is
CarriesValue(out, in) ==
    IF in.k = "numstr" THEN IsRounded8(out, in) ELSE out = in

\* C8: an aggregated-trades table never has a, p, q, f, l, T, m as fields;
\* they appear as aggTradeId, price, qty, firstTradeId, lastTradeId, time,
\* isBuyerMaker, each carrying the value of its raw key (the time as a
\* timestamp); a recent-trades table has the raw id as tradeId only.
C8_Renaming ==
    \A r \in Requests :
        /\ (pc[r] = "returned" /\ op[r] = "get_aggregated_trades")
           => LET table == result[r]
                  trades == response[r].body.items
                  raw == <<"a", "p", "q", "f", "l", "T", "m">>
                  new == <<"aggTradeId", "price", "qty", "firstTradeId",
                           "lastTradeId", "time", "isBuyerMaker">>
              IN  /\ \A n \in 1..7 : ~Contains(table.header, raw[n])
                  /\ \A n \in 1..7 : Contains(table.header, new[n])
                  /\ Len(table.rows) = Len(trades)
                  /\ \A i \in 1..Len(trades) : \A n \in 1..7 :
                         HasKey(trades[i], raw[n])
                         => IF raw[n] = "T"
                            THEN Cell(table, table.rows[i], "time")
                                   = Timestamp(Lookup(trades[i], "T").v)
                            ELSE CarriesValue(Cell(table, table.rows[i], new[n]),
                                              Lookup(trades[i], raw[n]))
        /\ (pc[r] = "returned" /\ op[r] = "get_recent_trades")
           => LET table == result[r]
                  trades == response[r].body.items
              IN  /\ ~Contains(table.header, "id")
                  /\ Contains(table.header, "tradeId")
                  /\ Len(table.rows) = Len(trades)
                  /\ \A i \in 1..Len(trades) :
                         HasKey(trades[i], "id")
                         => Cell(table, table.rows[i], "tradeId")
                              = Lookup(trades[i], "id")

\* aggregated-trades returned two rows for two different trades
C8_Witness ==
    \E r \in Requests :
        /\ pc[r] = "returned"
        /\ op[r] = "get_aggregated_trades"
        /\ Len(response[r].body.items) = 2
        /\ response[r].body.items[1] # response[r].body.items[2]
        /\ HasKey(response[r].body.items[1], "a")
        /\ Len(result[r].rows) = 2

LowerUpper ==
    {<<"a", "A">>, <<"b", "B">>, <<"d", "D">>, <<"i", "I">>, <<"k", "K">>,
     <<"s", "S">>, <<"t", "T">>}

\* u is s with every lower-case letter replaced by its capital
IsUpperCaseOf(u, s) ==
    /\ Len(u) = Len(s)
    /\ \A i \in 1..Len(s) :
           \/ <<s[i], u[i]>> \in LowerUpper
           \/ (u[i] = s[i] /\ \A lu \in LowerUpper : lu[1] # s[i])

OptionalKeys == {"startTime", "endTime", "limit", "fromId"}

\* the key under which operation o sends its symbol or pair
SymbolKey(o) == IF o = "get_index_price_kline" THEN "pair" ELSE "symbol"

\* the query of request r holds the symbol (or pair) in upper case if one was
\* given, and of the optional arguments exactly those that are not None, each
\* with its value; no key twice
MirrorsArguments(r) ==
    LET query == sent[r][1].params
        symbol == inbound[r][SymbolKey(op[r])]
    IN  /\ HasKey(query, SymbolKey(op[r])) <=> symbol # {}
        /\ symbol # {}
           => /\ Lookup(query, SymbolKey(op[r])).k = "text"
              /\ IsUpperCaseOf(Lookup(query, SymbolKey(op[r])).s, Value(symbol))
        /\ \A key \in OptionalKeys :
               /\ HasKey(query, key) <=> inbound[r][key] # {}
               /\ inbound[r][key] # {}
                  => Lookup(query, key) = IntCell(Value(inbound[r][key]))
        /\ \A i, j \in 1..Len(query) : query[i][1] = query[j][1] => i = j

\* C9 as stated: the query holds the upper-cased symbol (or pair) and exactly
\* the optional arguments that are not None, unchanged, and no other key.
C9_QueryNoOtherKey ==
    \A r \in Requests :
        pc[r] # "idle"
        => /\ MirrorsArguments(r)
           /\ \A i \in 1..Len(sent[r][1].params) :
                  sent[r][1].params[i][1] \in OptionalKeys \cup {SymbolKey(op[r])}

\* C9 as amended: the query holds the upper-cased symbol (or pair) and
\* exactly the optional arguments that are not None, unchanged; the three
\* kline operations also send their required interval unchanged; no other key
\* is sent.
C9_QueryMirrorsArguments ==
    \A r \in Requests :
        pc[r] # "idle"
        => LET query == sent[r][1].params
           IN  /\ MirrorsArguments(r)
               /\ HasKey(query, "interval") <=> op[r] \in KlineOperations
               /\ op[r] \in KlineOperations
                  => Lookup(query, "interval") = Text(Value(inbound[r].interval))
               /\ \A i \in 1..Len(query) :
                      query[i][1] \in OptionalKeys \cup {SymbolKey(op[r]), "interval"}

\* index-price-kline was called with a pair in lower case, no startTime and a
\* limit, and its GET is out
C9_Witness ==
    \E r \in Requests :
        /\ pc[r] = "awaiting"
        /\ op[r] = "get_index_price_kline"
        /\ inbound[r].pair = {<<"b", "t">>}
        /\ inbound[r].startTime = {}
        /\ inbound[r].limit # {}
        /\ Len(sent[r]) = 1
        /\ Lookup(sent[r][1].params, "pair") = Text(<<"B", "T">>)

\* the upstream call of request r failed: no response, or a status that is
\* not 2xx
UpstreamFailed(r) ==
    \/ response[r].kind = "transport"
    \/ (response[r].kind = "http" /\ ~(response[r].status \in 200..299))

\* C10: a request issues one GET and never a second one, whatever the
\* outcome; once a response or a transport failure is in, the request is
\* over, and a failed upstream call has made it fail.
C10_OneGetNoRetry ==
    \A r \in Requests :
        /\ Len(sent[r]) <= 1
        /\ pc[r] # "idle" => Len(sent[r]) = 1
        /\ response[r].kind # "none" => Done(r)
        /\ UpstreamFailed(r) => (pc[r] = "raised" /\ result[r].kind = "exception")

\* a request whose GET met a transport failure has raised, with one GET sent
C10_Witness ==
    \E r \in Requests :
        /\ pc[r] = "raised"
        /\ response[r].kind = "transport"
        /\ Len(sent[r]) = 1

---------------------------------------------------------------------------
(* C11 *)

\* the upstream answered with a status outside 200..299
AnsweredErrorStatus(r) ==
    /\ Done(r)
    /\ response[r].kind = "http"
    /\ ~(200 <= response[r].status /\ response[r].status <= 299)

\* C11: when the upstream answers with a non-2xx status the request raises
\* an error that carries the upstream status code and the upstream response
\* body; no table is returned and the body is never normalised, so the
\* error is never the one a normalisation failure produces.
C11_ErrorStatusCarriesStatusAndBody ==
    \A r \in Requests :
        AnsweredErrorStatus(r) =>
            /\ pc[r] = "raised"
            /\ result[r].kind = "exception"
            /\ result[r].header = <<>> /\ result[r].rows = <<>>
            /\ result[r].message.prefix = "API request failed"
            /\ result[r].message.status = response[r].status
            /\ result[r].message.text = response[r].body.items

\* a 429 whose body is a JSON object the handler could have normalised
C11_Witness ==
    \E r \in Requests :
        /\ AnsweredErrorStatus(r)
        /\ response[r].status = 429
        /\ response[r].body.shape = "object"
        /\ result[r].message.status = 429

---------------------------------------------------------------------------
(* C12 *)

\* the request failed while decoding or normalising a 2xx body
SchemaError(r) ==
    /\ pc[r] = "raised"
    /\ response[r].kind = "http"
    /\ response[r].status \in 200..299

\* C12: a request that fails with a schema error raises a generic failure
\* message: the message names the operation's data and nothing else, neither
\* the missing field nor the text of the underlying exception.
C12_GenericSchemaErrorMessage ==
    \A r \in Requests :
        SchemaError(r) =>
            /\ result[r].message.prefix = "Error processing"
            /\ result[r].message.text = <<ErrorLabel(op[r])>>

---------------------------------------------------------------------------
(* C13 *)

\* the rows of a returned table read back as records, keyed by the header
AsRecords(table) ==
    [i \in 1..Len(table.rows) |->
        [j \in 1..Len(table.header) |->
            <<table.header[j], table.rows[i][j]>>]]

\* C13: rounding is idempotent: every number of a returned table is already
\* rounded to the places of its column (2 for priceChangePercent, 8 for the
\* others), so rounding it once more to those places gives the identical
\* number, and normalising the table's own records gives the table again.
C13_RoundingIdempotent ==
    \A r \in Requests :
        pc[r] = "returned" =>
            /\ \A i \in 1..Len(result[r].rows) :
                   \A j \in 1..Len(result[r].header) :
                       LET c == result[r].rows[i][j]
                       IN  c.k = "float" =>
                               RoundCell(c, Decimals(result[r].header[j])) = c
            /\ op[r] \in RoundingOperations =>
                   LET again == Normalize(op[r],
                                          [shape |-> "array",
                                           items |-> AsRecords(result[r])])
                   IN  /\ again.ok
                       /\ again.cols = result[r].header
                       /\ again.rows = result[r].rows

\* a 24h ticker whose numerals were off the grid (1.5 units) was rounded and
\* returned
C13_Witness ==
    \E r \in Requests :
        /\ pc[r] = "returned"
        /\ op[r] = "get_price_change_statistics_24h"
        /\ response[r].body = NumeralBody(op[r], 15)
        /\ Cell(result[r], result[r].rows[1], "priceChangePercent")
               = Float(2 * Pow10(Scale - PercentDecimals))
        /\ Cell(result[r], result[r].rows[1], "lastPrice")
               = Float(2 * Pow10(Scale - PriceDecimals))

---------------------------------------------------------------------------
(* C14 *)

\* what request r holds follows from its own arguments and its own response
OwnOutcome ==
    \A r \in InFlight :
        /\ pc[r] # "idle" =>
               sent[r] = <<[url |-> <<BASE_URL, Endpoint(op[r])>>,
                            params |-> Params(op[r], inbound[r])]>>
        /\ pc[r] \in {"returned", "raised"} =>
               result[r] = Outcome(op[r], response[r])

\* the fields of request q are left as they are
Untouched(q) ==
    /\ pc'[q] = pc[q]
    /\ op'[q] = op[q]
    /\ inbound'[q] = inbound[q]
    /\ sent'[q] = sent[q]
    /\ response'[q] = response[q]
    /\ result'[q] = result[q]
    /\ clientOpen'[q] = clientOpen[q]

\* a step is the step of one request and touches no other
OneRequestSteps == \E r \in InFlight : \A q \in InFlight \ {r} : Untouched(q)

\* C14: requests in flight together are independent under every
\* interleaving: the query and the result of each are those its own
\* arguments and its own upstream response determine, and no step of one
\* request changes anything another request holds.
C14_RequestsIndependent == []OwnOutcome /\ [][OneRequestSteps]_vars

\* one request has returned its table while a different one is in flight
C14_Witness ==
    \E r \in InFlight : \E q \in InFlight \ {r} :
        /\ pc[r] = "returned" /\ pc[q] = "awaiting"
        /\ op[r] # op[q]
        /\ clientOpen[q]

---------------------------------------------------------------------------
(* C15 *)

\* C15: in the order-book table the bid rows are in descending price order
\* and the ask rows in ascending price order, the lowest ask first, as the
\* comment above the sort says.
C15_BidsDescendingAsksAscending ==
    \A r \in Requests :
        (pc[r] = "returned" /\ op[r] = "get_order_book")
        => LET table == result[r]
               side(i) == Cell(table, table.rows[i], "side").s
               price(i) == Cell(table, table.rows[i], "price").v
           IN  \A i, j \in 1..Len(table.rows) :
                   (i < j /\ side(i) = side(j)) =>
                       IF side(i) = <<"b", "i", "d">>
                       THEN price(i) >= price(j)
                       ELSE price(i) <= price(j)

---------------------------------------------------------------------------
(* C16 *)

\* C16: a failing request ends with one error, of one of two kinds: "API
\* request failed" with the status and the body exactly when the upstream
\* answered with an error status, "Error processing" for every other failure
\* (transport, JSON decoding, normalisation); the error of the HTTP-status
\* clause is never wrapped again by the generic clause.
C16_OneErrorOfTwoKinds ==
    \A r \in Requests :
        pc[r] = "raised" =>
            /\ result[r].kind = "exception"
            /\ result[r].message.prefix
                   \in {"API request failed", "Error processing"}
            /\ result[r].message.prefix = "API request failed"
                   <=> (/\ response[r].kind = "http"
                        /\ response[r].status \notin 200..299)
            /\ result[r].message.prefix = "API request failed" =>
                   /\ result[r].message.status = response[r].status
                   /\ result[r].message.text = response[r].body.items
            /\ result[r].message.prefix = "Error processing" =>
                   /\ result[r].message.status = 0
                   /\ result[r].message.text[1] = ErrorLabel(op[r])
                   /\ "API request failed" \notin
                          {result[r].message.text[i] :
                               i \in 1..Len(result[r].message.text)}

\* a 500 has ended as "API request failed", not as "Error processing"
C16_Witness ==
    \E r \in Requests :
        /\ pc[r] = "raised"
        /\ response[r].kind = "http"
        /\ response[r].status = 500
        /\ response[r].body.shape = "text"
        /\ result[r].message.prefix = "API request failed"
        /\ result[r].message.status = 500

---------------------------------------------------------------------------
(* C17 *)

OpenClients == {r \in InFlight : clientOpen[r]}

AwaitingRequests == {r \in InFlight : pc[r] = "awaiting"}

\* C17: the client a request opened is closed on every exit path (table
\* returned, HTTP-status error, any other error): a request that is over, or
\* a slot between two requests, has no open client, so once every request
\* is over none is open, and the open clients are never more than the
\* requests in flight.
C17_ClientClosedOnEveryExit ==
    /\ \A r \in InFlight : pc[r] # "awaiting" => ~clientOpen[r]
    /\ Cardinality(OpenClients) <= Cardinality(AwaitingRequests)
    /\ AwaitingRequests = {} => OpenClients = {}

\* one request has raised the HTTP-status error, the other a different
\* error, and both clients are closed
C17_Witness ==
    \E r \in InFlight : \E q \in InFlight \ {r} :
        /\ pc[r] = "raised" /\ pc[q] = "raised"
        /\ result[r].message.prefix = "API request failed"
        /\ result[q].message.prefix = "Error processing"
        /\ OpenClients = {}

=============================================================================
